---- MODULE Spec2Model ----
(***************************************************************************)
(* The command palette of cataplot (src/cataplot/command_palette.py): the  *)
(* controller CommandPalette running on the GUI thread, the Worker threads *)
(* it starts, and the queued signal deliveries between them.               *)
(*                                                                         *)
(* A handler of the GUI thread (show, hide, handle_item_chosen, go_back, a *)
(* signal delivery) is one action.  A Worker thread advances in steps of   *)
(* its own between the handlers, and inside a handler between the          *)
(* statements that change what the thread reads or whether its emissions   *)
(* are posted.  A signal emitted by a Worker thread to                     *)
(* a slot of the palette is a queued connection: when the signal is still  *)
(* connected at the emission, the call is posted to the GUI thread's event *)
(* queue and is delivered later, also when the signal has been             *)
(* disconnected in between.                                                *)
(***************************************************************************)
EXTENDS Integers, Sequences, FiniteSets, TLC

VARIABLES
    commands,        \* the registry: a dict in insertion order, as a sequence
    commands_mru,    \* dict: command name -> saved breadcrumbs
    breadcrumbs,     \* the controller's breadcrumbs list
    current_items,   \* the items of the current level
    items_view,      \* current_items is the live view self.commands.keys()
    command_input,   \* the text of the input field
    command_model,   \* the string list displayed by the list view
    bc_label,        \* the text of the breadcrumb label, as a sequence of pieces
    visible,         \* isVisible() of the palette
    worker,          \* the `worker` slot: a worker id, or 0 for None
    old_workers,     \* list of worker ids
    workers,         \* every Worker object created so far, by id
    queue,           \* queued signal deliveries posted to the GUI thread
    last             \* the last handler the GUI thread ran: its name, the exception
                     \* it raised, the worker it started or heard from, and
                     \* whether it replaced breadcrumbs by an MRU entry

vars == <<commands, commands_mru, breadcrumbs, current_items, items_view,
          command_input, command_model, bc_label, visible, worker, old_workers,
          workers, queue, last>>

\* ------------------------------------------------------------------ bounds

\* Worker objects created in one behaviour.
MaxWorkers == 3

\* Worker threads that have not finished, at any one time.
MaxRunning == 2

\* The rows of the displayed list the user picks from: 1..MaxRow.
MaxRow == 1

\* The longest breadcrumbs an item choice may produce.
MaxDepth == 3

\* The `delay` keyword of "Slow command" (3.0) and of "Fast command" (0.5),
\* in steps of 0.1 s: int(delay / 0.1), the number of progress values the
\* dummy command emits at depth 1, scaled down from 30 and from 5.
DelayTicks == 1

FastTicks == 1

\* Worker objects created in one behaviour in which the user also types.
TypingWorkers == 2

\* Worker objects created in one behaviour in which commands are also
\* registered.
RegistryWorkers == 1

\* The longest list of items handed to the filter.
MaxItems == 3

\* The `delay` of a command that emits several progress values, and the
\* Worker objects created in one behaviour with such a command.
ProgressTicks == 2

ProgressWorkers == 2

\* Worker objects in one behaviour that starts below the top level, the
\* worker of the level shown at the start included.
DrilledWorkers == 3

\* ------------------------------------------------------------- sequences

\* A pop(0) where the code has pop(): the first element is dropped.
Front_drops_first(s) == SubSeq(s, 2, Len(s))

\* s[:-1], and the list that s.pop() leaves.
Front(s) == SubSeq(s, 1, Len(s) - 1)

Range(s) == {s[i] : i \in DOMAIN s}

RECURSIVE RemoveFirst(_, _)
RemoveFirst(s, x) ==
    IF s = <<>> THEN <<>>
    ELSE IF Head(s) = x THEN Tail(s)
    ELSE <<Head(s)>> \o RemoveFirst(Tail(s), x)

\* " > ".join(crumbs): the pieces of the joined text.
RECURSIVE Join(_)
Join(crumbs) ==
    IF crumbs = <<>> THEN <<>>
    ELSE IF Len(crumbs) = 1 THEN <<crumbs[1]>>
    ELSE <<Head(crumbs), " > ">> \o Join(Tail(crumbs))

\* spinner[value % 4] of handle_progress_signal, as label pieces.
Spinner(value) ==
    LET spinner == <<"", ".", "..", "...">>
        text == spinner[(value % 4) + 1]
    IN  IF text = "" THEN <<>> ELSE <<text>>

\* ------------------------------------------------------------ menu_filter

\* list(s): the characters of a string.  The strings are those the palette
\* can hold: the command names, the items the command functions return, and
\* the texts typed into the input field.
Chars(s) ==
    CASE s = "" -> <<>>
      [] s = "a\nb" -> <<"a", "\n", "b">>
      [] s = "a\nab" -> <<"a", "\n", "a", "b">>
      [] s = "Slow command" -> <<"S", "l", "o", "w", " ", "c", "o", "m", "m", "a", "n", "d">>
      [] s = "Fast command" -> <<"F", "a", "s", "t", " ", "c", "o", "m", "m", "a", "n", "d">>
      [] s = "Add item" -> <<"A", "d", "d", " ", "i", "t", "e", "m">>
      [] s = "foos" -> <<"f", "o", "o", "s">>
      [] s = "bars" -> <<"b", "a", "r", "s">>
      [] s = "bazes" -> <<"b", "a", "z", "e", "s">>
      [] s = "foo1" -> <<"f", "o", "o", "1">>
      [] s = "foo2" -> <<"f", "o", "o", "2">>
      [] s = "foo3" -> <<"f", "o", "o", "3">>
      [] s = "bar1" -> <<"b", "a", "r", "1">>
      [] s = "bar2" -> <<"b", "a", "r", "2">>
      [] s = "bar3" -> <<"b", "a", "r", "3">>
      [] s = "baz1" -> <<"b", "a", "z", "1">>
      [] s = "baz2" -> <<"b", "a", "z", "2">>
      [] s = "baz3" -> <<"b", "a", "z", "3">>
      [] s = "a" -> <<"a">>
      [] s = "b" -> <<"b">>
      [] s = "B" -> <<"B">>
      [] s = "ab" -> <<"a", "b">>
      [] s = "ba" -> <<"b", "a">>
      [] s = "." -> <<".">>
      [] s = "aab" -> <<"a", "a", "b">>
      [] s = "Ab" -> <<"A", "b">>
      [] s = "a.b" -> <<"a", ".", "b">>

\* The case folding that re.IGNORECASE applies to a character.
Lower(c) ==
    CASE c = "A" -> "a"
      [] c = "B" -> "b"
      [] c = "F" -> "f"
      [] c = "S" -> "s"
      [] OTHER -> c

\* build_regex(query): every character of the query escaped, hence a
\* literal, the literals joined by the lazy gap '.*?'.  The pattern is kept
\* as the sequence of its literals.
build_regex(query) == [i \in DOMAIN Chars(query) |-> Chars(query)[i]]

NoMatch == [start |-> -1, end |-> -1]

\* The backtracking matcher on literal i of the pattern with p characters
\* of the string consumed: the gap before the literal is tried with no
\* character first and then grows by one character at a time; the first
\* literal has no gap before it.  The gap is '.*?' without re.DOTALL: it
\* takes any character but the line feed.  The end of the match, or -1.
RECURSIVE lazy(_, _, _, _)
lazy(string, regex, i, p) ==
    IF i > Len(regex) THEN p
    ELSE IF p >= Len(string) THEN -1
    ELSE LET rest == IF Lower(string[p + 1]) = Lower(regex[i])
                     THEN lazy(string, regex, i + 1, p + 1)
                     ELSE -1
         IN  IF rest # -1 THEN rest
             ELSE IF i = 1 \/ string[p + 1] = "\n" THEN -1
             ELSE lazy(string, regex, i, p + 1)

\* re.search(regex, string, re.IGNORECASE) from start position s on: the
\* match at the leftmost position where the pattern matches.
RECURSIVE search(_, _, _)
search(regex, string, s) ==
    IF s > Len(string) THEN NoMatch
    ELSE LET e == lazy(string, regex, 1, s)
         IN  IF e # -1 THEN [start |-> s, end |-> e]
             ELSE search(regex, string, s + 1)

\* A score: the number n / d.
Ratio(n, d) == [n |-> n, d |-> d]

Greater(a, b) == a.n * b.d > b.n * a.d

\* A score that takes the empty pattern for a pattern without a match.
score_empty_is_zero(string, regex) ==
    LET match     == search(regex, Chars(string), 0)
        pos_match == match.start + 1
        len_match == (match.end - match.start) + 1
    IN  IF match = NoMatch \/ regex = <<>> THEN Ratio(0, 1)
        ELSE Ratio(100, pos_match * len_match)

\* score(string, regex) with ignorecase left at True.
score(string, regex) ==
    LET match     == search(regex, Chars(string), 0)
        pos_match == match.start + 1
        len_match == (match.end - match.start) + 1
    IN  IF match = NoMatch THEN Ratio(0, 1)
        ELSE Ratio(100, pos_match * len_match)

\* An insertion of a sort that is not stable: x goes before the elements
\* of the same score.
RECURSIVE Insert_before_equal(_, _)
Insert_before_equal(x, ranked) ==
    IF ranked = <<>> THEN <<x>>
    ELSE IF ~Greater(Head(ranked).score, x.score) THEN <<x>> \o ranked
    ELSE <<Head(ranked)>> \o Insert_before_equal(x, Tail(ranked))

\* One insertion of list.sort(key=lambda x: x[1], reverse=True): the sort
\* is stable, x goes behind every element whose score is not smaller.
RECURSIVE Insert(_, _)
Insert(x, ranked) ==
    IF ranked = <<>> THEN <<x>>
    ELSE IF Greater(x.score, Head(ranked).score) THEN <<x>> \o ranked
    ELSE <<Head(ranked)>> \o Insert(x, Tail(ranked))

RECURSIVE SortRanked(_, _)
SortRanked(pairs, done) ==
    IF pairs = <<>> THEN done
    ELSE SortRanked(Tail(pairs), Insert(Head(pairs), done))

\* rank_list(query, items): the pairs (item, score), best score first.
rank_list(query, items) ==
    LET regex  == build_regex(query)
        ranked == [i \in DOMAIN items |->
                      [item |-> items[i], score |-> score(items[i], regex)]]
    IN  SortRanked(ranked, <<>>)

\* A filter_list whose test is "score >= 0": nothing is filtered out.
filter_list_keeps_zero(query, items) ==
    LET ranked == rank_list(query, items)
        kept   == SelectSeq(ranked, LAMBDA x : x.score.n >= 0)
    IN  [i \in DOMAIN kept |-> kept[i].item]

\* filter_list(query, items): the ranked items of a score above 0.
filter_list(query, items) ==
    LET ranked == rank_list(query, items)
        kept   == SelectSeq(ranked, LAMBDA x : x.score.n > 0)
    IN  [i \in DOMAIN kept |-> kept[i].item]

\* ------------------------------------------------------- work functions

Outcome(status, results) == [status |-> status, results |-> results]

NoOutcome == Outcome("none", <<>>)

\* The command function ended with an exception: Worker.run ends with it.
Raised == Outcome("raise", <<>>)

\* A command function that has come to the statement `line`, and one that
\* has decided what it returns: `ticks` progress values are emitted before
\* the return.
At(line) == [at |-> line, outcome |-> NoOutcome, ticks |-> 0]

Done(outcome, ticks) == [at |-> "done", outcome |-> outcome, ticks |-> ticks]

\* The statements of dummy_command that read breadcrumbs, by their line.
Lines == {"line84", "line90", "line91", "line93", "line95"}

\* dummy_command(breadcrumbs, progress_signal, delay) of the palette's
\* documentation, one read of breadcrumbs at a time: the statement at
\* `at` reads the list as it is now and the function goes on to its next
\* read, or to its return.  breadcrumbs[1] of a list shorter than 2
\* raises IndexError.
dummy_command_at(at, crumbs, delay) ==
    CASE at = "line84" ->
            IF Len(crumbs) = 1
            THEN Done(Outcome("sub-command", <<"foos", "bars", "bazes">>), delay)
            ELSE At("line90")
      [] at = "line90" ->
            IF Len(crumbs) = 2 THEN At("line91") ELSE Done(Outcome("completed", <<>>), 0)
      [] at = "line91" ->
            IF Len(crumbs) < 2 THEN Done(Raised, 0)
            ELSE IF crumbs[2] = "foos"
                THEN Done(Outcome("sub-command", <<"foo1", "foo2", "foo3">>), 0)
            ELSE At("line93")
      [] at = "line93" ->
            IF Len(crumbs) < 2 THEN Done(Raised, 0)
            ELSE IF crumbs[2] = "bars"
                THEN Done(Outcome("sub-command", <<"bar1", "bar2", "bar3">>), 0)
            ELSE At("line95")
      [] at = "line95" ->
            IF Len(crumbs) < 2 THEN Done(Raised, 0)
            ELSE IF crumbs[2] = "bazes"
                THEN Done(Outcome("sub-command", <<"baz1", "baz2", "baz3">>), 0)
            ELSE Done(Outcome("completed", <<>>), 0)

\* self.cmd_fn(self.breadcrumbs, self.progress, **self.kwargs), one read of
\* breadcrumbs at a time.  The call passes two positional arguments: the
\* functions of app.py, dummy_command(_app, crumbs, progress_signal, delay)
\* and cmd_add_item(app, crumbs, _progress_signal), take three, and the
\* call raises TypeError before their first statement.
cmd_fn_at(fn, at, crumbs, delay) ==
    IF fn = "dummy_command"
    THEN dummy_command_at(IF at = "call" THEN "line84" ELSE at, crumbs, delay)
    ELSE Done(Raised, 0)

\* The whole call on a list that nobody changes meanwhile.
RECURSIVE cmd_run(_, _, _, _)
cmd_run(fn, at, crumbs, delay) ==
    LET s == cmd_fn_at(fn, at, crumbs, delay)
    IN  IF s.at = "done" THEN s ELSE cmd_run(fn, s.at, crumbs, delay)

cmd_fn(fn, crumbs) == cmd_run(fn, "call", crumbs, 0).outcome

cmd_ticks(fn, crumbs, delay) == cmd_run(fn, "call", crumbs, delay).ticks

dummy_command(crumbs) == cmd_fn("dummy_command", crumbs)

\* --------------------------------------------------------------- registry

Command(name, fn, delay) == [name |-> name, fn |-> fn, delay |-> delay]

\* The registry of the palette's documentation: add_command("Slow command",
\* dummy_command, delay=3.0) and add_command("Fast command", dummy_command,
\* delay=0.5), with the dummy_command the documentation defines.
DocRegistry ==
    << Command("Slow command", "dummy_command", DelayTicks),
       Command("Fast command", "dummy_command", FastTicks) >>

\* The registry MainWindow.__init__ builds, with the functions of app.py.
AppRegistry ==
    << Command("Slow command", "app.dummy_command", DelayTicks),
       Command("Fast command", "app.dummy_command", FastTicks),
       Command("Add item", "app.cmd_add_item", 0) >>

\* The registrations made before the first event: one of these registries.
Registries == {DocRegistry, AppRegistry}

\* add_command keeping the entry of a name that is already registered
\* (dict.setdefault in place of the assignment).
add_command_keeps_first(cmds, name, fn, delay) ==
    IF \E i \in DOMAIN cmds : cmds[i].name = name
    THEN cmds
    ELSE Append(cmds, Command(name, fn, delay))

\* add_command: self.commands[command_name] = (command_fn, kwargs).  A new
\* key goes to the end of the dict, a known key keeps its place and gets
\* the new value.
add_command(cmds, name, fn, delay) ==
    IF \E i \in DOMAIN cmds : cmds[i].name = name
    THEN [i \in DOMAIN cmds |->
            IF cmds[i].name = name THEN Command(name, fn, delay) ELSE cmds[i]]
    ELSE Append(cmds, Command(name, fn, delay))

\* list(self.commands): the keys in insertion order.
CommandNames == [i \in DOMAIN commands |-> commands[i].name]

HasCommand(name) == \E i \in DOMAIN commands : commands[i].name = name

\* self.commands[name]
Lookup(name) == commands[CHOOSE i \in DOMAIN commands : commands[i].name = name]

\* ------------------------------------------------------------------- MRU

NoMru == [k \in {} |-> <<>>]

MruPut(mru, key, path) ==
    [k \in (DOMAIN mru) \cup {key} |-> IF k = key THEN path ELSE mru[k]]

MruDrop(mru, key) == [k \in (DOMAIN mru) \ {key} |-> mru[k]]

\* ---------------------------------------------------------------- workers

\* A Worker object.  crumbs is the list it was given; shared says that this
\* list is the very object the controller's `breadcrumbs` names, so that an
\* append or a pop by the controller changes what the worker reads; by
\* names the handler that called run_chosen_item to create it.  Its two
\* signals are connected to the palette's slots one by one, and
\* disconnected one by one.
NewWorker(cmd, crumbs, by) ==
    [ fn        |-> cmd.fn,
      by        |-> by,
      delay     |-> cmd.delay,
      crumbs    |-> crumbs,
      shared    |-> TRUE,
      cancelled |-> FALSE,
      progress_connected |-> TRUE,
      result_connected   |-> TRUE,
      pc        |-> "started",
      outcome   |-> NoOutcome,
      ticks     |-> 0 ]

\* What is left of a Worker object once it has been collected.
Gone ==
    [ fn        |-> "",
      by        |-> "",
      delay     |-> 0,
      crumbs    |-> <<>>,
      shared    |-> FALSE,
      cancelled |-> TRUE,
      progress_connected |-> FALSE,
      result_connected   |-> FALSE,
      pc        |-> "gone",
      outcome   |-> NoOutcome,
      ticks     |-> 0 ]

\* QThread.isFinished() and QThread.isRunning() of a started thread.
isFinished(w) == w.pc \in {"finished", "gone"}

isRunning(w) == ~isFinished(w)

\* The thread is in the command function and has reads of breadcrumbs ahead.
InCall(w) == w.pc = "started" \/ w.pc \in Lines

\* The controller's list is changed in place: every worker holding the same
\* object reads the new value.
InPlace(ws, crumbs) ==
    [i \in DOMAIN ws |-> IF ws[i].shared THEN [ws[i] EXCEPT !.crumbs = crumbs] ELSE ws[i]]

\* The controller's name is bound to a new list object.
Rebound(ws) == [i \in DOMAIN ws |-> [ws[i] EXCEPT !.shared = FALSE]]

\* A finished Worker that nothing refers to any longer is collected.
Collect(ws, slot, old) ==
    [i \in DOMAIN ws |->
        IF i # slot /\ i \notin Range(old) /\ isFinished(ws[i]) THEN Gone ELSE ws[i]]

\* ----------------------------------------------------------------- signals

Progress(sender, value) ==
    [sender |-> sender, kind |-> "progress", value |-> value,
     status |-> "", results |-> <<>>]

Result(sender, status, results) ==
    [sender |-> sender, kind |-> "result", value |-> 0,
     status |-> status, results |-> results]

\* An emit that posts the call whether or not a slot is still connected.
Emit_unconnected(w, q, msg) == Append(q, msg)

\* signal.emit(...) in the thread of the Worker w, with q the event queue
\* of the GUI thread: the call is posted when the signal's slot is connected.
Emit(w, q, msg) ==
    IF (IF msg.kind = "progress" THEN w.progress_connected ELSE w.result_connected)
    THEN Append(q, msg)
    ELSE q

\* A run without the test of self.cancelled: it always goes on to emit.
AfterCall_ignores_cancelled(w) ==
    IF w.outcome.status = "raise" THEN "finished" ELSE "emit100"

\* Worker.run when the command function is over: with an exception run
\* ends, and so it does when self.cancelled is set; else it goes on to emit.
AfterCall(w) ==
    IF w.outcome.status = "raise" THEN "finished"
    ELSE IF w.cancelled THEN "finished"
    ELSE "emit100"

\* The Worker w after a step s of its command function: the function has
\* returned or raised, or it stands before its next read of breadcrumbs.
AfterRead(w, s) ==
    IF s.at = "done"
    THEN [w EXCEPT !.pc = "working", !.outcome = s.outcome, !.ticks = s.ticks]
    ELSE [w EXCEPT !.pc = s.at]

\* One step of the thread of the Worker w with identity id: the Worker and
\* the event queue after it.  A thread that has finished takes none.
ThreadStep(w, id, q) ==
    CASE InCall(w) ->
            [ w |-> AfterRead(w, cmd_fn_at(w.fn, IF w.pc = "started" THEN "call" ELSE w.pc,
                                           w.crumbs, w.delay)),
              q |-> q ]
      [] w.pc = "working" /\ w.ticks > 0 ->
            [ w |-> [w EXCEPT !.ticks = @ - 1],
              q |-> Emit(w, q, Progress(id, w.delay - w.ticks + 1)) ]
      [] w.pc = "working" /\ w.ticks = 0 ->
            [ w |-> [w EXCEPT !.pc = AfterCall(w)], q |-> q ]
      [] w.pc = "emit100" ->
            [ w |-> [w EXCEPT !.pc = "emitres"], q |-> Emit(w, q, Progress(id, 100)) ]
      [] w.pc = "emitres" ->
            [ w |-> [w EXCEPT !.pc = "exiting"],
              q |-> Emit(w, q, Result(id, w.outcome.status, w.outcome.results)) ]
      [] w.pc = "exiting" ->
            [ w |-> [w EXCEPT !.pc = "finished"], q |-> q ]
      [] OTHER -> [ w |-> w, q |-> q ]

\* The Workers and the event queue of the GUI thread, as one value.
Threads(ws, q) == [ws |-> ws, q |-> q]

\* The Workers ws and the queue after the step s of the thread of Worker id.
Stepped(ws, id, s) == Threads([ws EXCEPT ![id] = s.w], s.q)

\* The Workers and the event queue after the thread of Worker id has taken
\* n steps.
RECURSIVE Run(_, _, _)
Run(st, id, n) ==
    IF n = 0 THEN st
    ELSE Run(Stepped(st.ws, id, ThreadStep(st.ws[id], id, st.q)), id, n - 1)

\* The steps the thread of a Worker has ahead of it.
RECURSIVE StepsLeft(_)
StepsLeft(w) ==
    IF isFinished(w) THEN 0 ELSE 1 + StepsLeft(ThreadStep(w, 0, <<>>).w)

Step(op, err, w, replayed) == [op |-> op, err |-> err, w |-> w, replayed |-> replayed]

\* ------------------------------------------------------------- controller

\* The numbers of steps the thread of Worker id may take while the GUI
\* thread is between two statements of a handler.  A step that the
\* statements around it have no bearing on is the same step taken before
\* or after the handler; what is listed here are the runs whose place
\* between the statements changes what follows: every number of steps when
\* `any` holds (the statement before has changed what the thread reads),
\* else the run that takes the thread to `upto`.
Between(ws, id, any, upto) ==
    { k \in 0..StepsLeft(ws[id]) :
        k = 0 \/ any \/ Run(Threads(ws, <<>>), id, k).ws[id].pc = upto }

\* archive_worker, line 387 and line 388: the flag is set and the progress
\* signal disconnected.
line388(slot, st) ==
    [st EXCEPT !.ws[slot].cancelled = TRUE, !.ws[slot].progress_connected = FALSE]

\* archive_worker, line 389: the result signal is disconnected.
line389(slot, st) == [st EXCEPT !.ws[slot].result_connected = FALSE]

\* archive_worker, lines 390 to 392: the worker is kept in old_workers when
\* its thread is running, and the slot is emptied.
line390(slot, old, st) ==
    [ worker |-> 0,
      old    |-> IF isRunning(st.ws[slot]) THEN Append(old, slot) ELSE old,
      ws     |-> st.ws,
      q      |-> st.q ]

\* The steps the archived thread takes inside archive_worker: n between
\* the two disconnect calls, m between the second and isRunning().
ArchiveRuns(slot, ws) ==
    IF slot # 0
    THEN UNION { { <<n, m>> :
                    m \in Between(line389(slot, Run(line388(slot, Threads(ws, <<>>)), slot, n)).ws,
                                  slot, FALSE, "finished") } :
                 n \in Between(line388(slot, Threads(ws, <<>>)).ws, slot, FALSE, "exiting") }
    ELSE { <<0, 0>> }

\* archive_worker without the two disconnect calls.
archive_worker_keeps_connected(slot, old, ws, q, run) ==
    IF slot # 0
    THEN [ worker |-> 0,
           old    |-> IF isRunning(ws[slot]) THEN Append(old, slot) ELSE old,
           ws     |-> [ws EXCEPT ![slot].cancelled = TRUE],
           q      |-> q ]
    ELSE [ worker |-> slot, old |-> old, ws |-> ws, q |-> q ]

\* archive_worker ending the thread of the worker it archives where it
\* stands (QThread.terminate(), which returns before the thread has ended:
\* isRunning() is read as it was).
archive_worker_terminates(slot, old, ws, q, run) ==
    IF slot # 0
    THEN [ worker |-> 0,
           old    |-> IF isRunning(ws[slot]) THEN Append(old, slot) ELSE old,
           ws     |-> [ws EXCEPT ![slot].cancelled = TRUE,
                                 ![slot].progress_connected = FALSE,
                                 ![slot].result_connected = FALSE,
                                 ![slot].pc = "finished"],
           q      |-> q ]
    ELSE [ worker |-> slot, old |-> old, ws |-> ws, q |-> q ]

\* archive_worker: the state of (worker, old_workers, workers, queue) after
\* it, when the archived thread takes the steps of `run` meanwhile.  The
\* flag is set, then the two signals are disconnected one after the other,
\* then isRunning() is read: a result emitted between the two disconnect
\* calls is posted when its progress value was not, and a thread that ends
\* before isRunning() is read is not kept in old_workers.
archive_worker(slot, old, ws, q, run) ==
    IF slot # 0
    THEN line390(slot, old,
                 Run(line389(slot, Run(line388(slot, Threads(ws, q)), slot, run[1])),
                     slot, run[2]))
    ELSE [ worker |-> slot, old |-> old, ws |-> ws, q |-> q ]

\* The scan with its test inverted: it removes the workers still running.
RECURSIVE Scrub_running(_, _, _)
Scrub_running(old, i, ws) ==
    IF i > Len(old) THEN old
    ELSE IF isRunning(ws[old[i]]) THEN Scrub_running(RemoveFirst(old, old[i]), i + 1, ws)
    ELSE Scrub_running(old, i + 1, ws)

\* The loop `for worker in self.old_workers: if worker.isFinished():
\* self.old_workers.remove(worker)`: the list is changed while the loop
\* walks it by index.
RECURSIVE Scrub(_, _, _)
Scrub(old, i, ws) ==
    IF i > Len(old) THEN old
    ELSE IF isFinished(ws[old[i]]) THEN Scrub(RemoveFirst(old, old[i]), i + 1, ws)
    ELSE Scrub(old, i + 1, ws)

\* hide(): the list view shows the registry, breadcrumbs is a new empty list.
hide(ws) ==
    /\ command_model' = CommandNames
    /\ breadcrumbs' = <<>>
    /\ visible' = FALSE
    /\ workers' = Rebound(ws)

\* show() without the call that clears the input field.
show_keeps_input ==
    /\ command_input' = command_input
    /\ bc_label' = <<>>
    /\ current_items' = CommandNames
    /\ items_view' = TRUE
    /\ command_model' = CommandNames
    /\ visible' = TRUE

\* show(): the part that changes the palette's state.
show ==
    /\ command_input' = ""
    /\ bc_label' = <<>>
    /\ current_items' = CommandNames
    /\ items_view' = TRUE
    /\ command_model' = CommandNames
    /\ visible' = TRUE

\* run_chosen_item, lines 262 to 267: a Worker is made for the command,
\* takes the place in the slot and is started.
run_chosen_item_start(op, replay, cmd_name, bc2, id, ws, q, old2) ==
    /\ id <= MaxWorkers
    /\ Cardinality({i \in DOMAIN ws : isRunning(ws[i])}) < MaxRunning
    /\ worker' = id
    /\ old_workers' = old2
    /\ workers' = Append(Collect(ws, 0, old2), NewWorker(Lookup(cmd_name), bc2, op))
    /\ queue' = q
    /\ last' = Step(op, "", id, replay)

\* run_chosen_item, lines 257 to 260: the scan of old_workers, after
\* archive_worker has left a.
run_chosen_item_scan(op, replay, cmd_name, bc2, id, a) ==
    run_chosen_item_start(op, replay, cmd_name, bc2, id, a.ws, a.q, Scrub(a.old, 1, a.ws))

\* run_chosen_item, line 255: archive_worker, reached with the Workers and
\* the queue st.
run_chosen_item_archive(op, replay, cmd_name, bc2, id, slot, old, st) ==
    \E run \in ArchiveRuns(slot, st.ws) :
        run_chosen_item_scan(op, replay, cmd_name, bc2, id,
                             archive_worker(slot, old, st.ws, st.q, run))

\* The steps the thread of the worker in the slot may take between the
\* caller's change of the list it reads and archive_worker: any, when it
\* reads that list and is in the command function.
line255(slot, was, ws2) ==
    IF slot # 0
    THEN Between(ws2, slot, was[slot].shared /\ InCall(was[slot]), "")
    ELSE {0}

\* run_chosen_item removing the MRU entry without using the path it holds.
run_chosen_item_drops_mru_path(op, bc, slot, old, ws, q) ==
    LET cmd_name == bc[1]
        replay   == Len(bc) = 1 /\ cmd_name \in DOMAIN commands_mru
    IN  /\ commands_mru' = IF replay THEN MruDrop(commands_mru, cmd_name) ELSE commands_mru
        /\ breadcrumbs' = bc
        /\ IF ~HasCommand(cmd_name)
           THEN \* self.commands[cmd_name] raises KeyError
                /\ worker' = slot
                /\ old_workers' = old
                /\ workers' = Collect(ws, slot, old)
                /\ queue' = q
                /\ last' = Step(op, "KeyError", 0, replay)
           ELSE \E n \in line255(slot, ws, ws) :
                run_chosen_item_archive(op, replay, cmd_name, bc, Len(ws) + 1, slot, old,
                                        Run(Threads(ws, q), slot, n))

\* run_chosen_item reading the MRU entry without removing it.
run_chosen_item_keeps_mru(op, bc, slot, old, ws, q) ==
    LET cmd_name == bc[1]
        replay   == Len(bc) = 1 /\ cmd_name \in DOMAIN commands_mru
        bc2      == IF replay THEN commands_mru[cmd_name] ELSE bc
        ws2      == IF replay THEN Rebound(ws) ELSE ws
    IN  /\ commands_mru' = commands_mru
        /\ breadcrumbs' = bc2
        /\ IF ~HasCommand(cmd_name)
           THEN \* self.commands[cmd_name] raises KeyError
                /\ worker' = slot
                /\ old_workers' = old
                /\ workers' = Collect(ws2, slot, old)
                /\ queue' = q
                /\ last' = Step(op, "KeyError", 0, replay)
           ELSE \E n \in line255(slot, ws, ws2) :
                run_chosen_item_archive(op, replay, cmd_name, bc2, Len(ws) + 1, slot, old,
                                        Run(Threads(ws2, q), slot, n))

\* run_chosen_item looking the command up with self.commands.get(cmd_name)
\* and returning when there is none: no exception is raised.
run_chosen_item_ignores_unknown(op, bc, slot, old, ws, q) ==
    LET cmd_name == bc[1]
        replay   == Len(bc) = 1 /\ cmd_name \in DOMAIN commands_mru
        bc2      == IF replay THEN commands_mru[cmd_name] ELSE bc
        ws2      == IF replay THEN Rebound(ws) ELSE ws
    IN  /\ commands_mru' = IF replay THEN MruDrop(commands_mru, cmd_name) ELSE commands_mru
        /\ breadcrumbs' = bc2
        /\ IF ~HasCommand(cmd_name)
           THEN \* no command: return
                /\ worker' = slot
                /\ old_workers' = old
                /\ workers' = Collect(ws2, slot, old)
                /\ queue' = q
                /\ last' = Step(op, "", 0, replay)
           ELSE \E n \in line255(slot, ws, ws2) :
                run_chosen_item_archive(op, replay, cmd_name, bc2, Len(ws) + 1, slot, old,
                                        Run(Threads(ws2, q), slot, n))

\* run_chosen_item with breadcrumbs bc, after (slot, old, ws, q) were left
\* by the caller; op names the handler that called it.  When the caller has
\* appended to the list that the worker in the slot reads, the thread of
\* that worker, not yet cancelled, may read the longer list, return and
\* emit before archive_worker is reached.
run_chosen_item(op, bc, slot, old, ws, q) ==
    LET cmd_name == bc[1]
        replay   == Len(bc) = 1 /\ cmd_name \in DOMAIN commands_mru
        bc2      == IF replay THEN commands_mru[cmd_name] ELSE bc
        ws2      == IF replay THEN Rebound(ws) ELSE ws
    IN  /\ commands_mru' = IF replay THEN MruDrop(commands_mru, cmd_name) ELSE commands_mru
        /\ breadcrumbs' = bc2
        /\ IF ~HasCommand(cmd_name)
           THEN \* self.commands[cmd_name] raises KeyError
                /\ worker' = slot
                /\ old_workers' = old
                /\ workers' = Collect(ws2, slot, old)
                /\ queue' = q
                /\ last' = Step(op, "KeyError", 0, replay)
           ELSE \E n \in line255(slot, ws, ws2) :
                run_chosen_item_archive(op, replay, cmd_name, bc2, Len(ws) + 1, slot, old,
                                        Run(Threads(ws2, q), slot, n))

\* ------------------------------------------------------ GUI thread actions

\* Ctrl+P: show().
Show ==
    /\ show
    /\ last' = Step("show", "", 0, FALSE)
    /\ UNCHANGED <<commands, commands_mru, breadcrumbs, worker, old_workers, workers, queue>>

\* Escape: hide().
Hide ==
    /\ hide(workers)
    /\ last' = Step("hide", "", 0, FALSE)
    /\ UNCHANGED <<commands, commands_mru, current_items, items_view, command_input,
                   bc_label, worker, old_workers, queue>>

\* handle_item_chosen on row i of the displayed list.  Clearing an input
\* field that holds a text emits textChanged: filter_commands("") runs
\* before the label is appended.
Choose(i) ==
    /\ visible
    /\ i \in DOMAIN command_model
    /\ Len(breadcrumbs) < MaxDepth
    /\ command_input' = ""
    /\ command_model' = IF command_input = "" THEN command_model
                        ELSE filter_list("", current_items)
    /\ LET bc == Append(breadcrumbs, command_model[i])
       IN  run_chosen_item("choose", bc, worker, old_workers, InPlace(workers, bc), queue)
    /\ UNCHANGED <<commands, current_items, items_view, bc_label, visible>>

\* handle_item_chosen without the test of chosen_item: None is appended to
\* breadcrumbs like a label and run_chosen_item is called.
ChooseNone_appends ==
    /\ visible
    /\ command_model = <<>>
    /\ Len(breadcrumbs) < MaxDepth
    /\ command_input' = ""
    /\ command_model' = IF command_input = "" THEN command_model
                        ELSE filter_list("", current_items)
    /\ LET bc == Append(breadcrumbs, "None")
       IN  run_chosen_item("choose", bc, worker, old_workers, InPlace(workers, bc), queue)
    /\ UNCHANGED <<commands, current_items, items_view, bc_label, visible>>

\* handle_item_chosen on an index that names no row, which is what
\* currentIndex() gives on Return when the displayed list is empty: data()
\* returns None and the handler returns at once.
ChooseNone ==
    /\ visible
    /\ command_model = <<>>
    /\ last' = Step("choose", "", 0, FALSE)
    /\ UNCHANGED <<commands, commands_mru, breadcrumbs, current_items, items_view,
                   command_input, command_model, bc_label, visible, worker,
                   old_workers, workers, queue>>

\* An eventFilter that does not look at the length of breadcrumbs.
eventFilter_any_depth == command_input = ""

\* The test eventFilter makes on a Backspace key press in the input field:
\* the text is empty (the cursor is then at position 0) and breadcrumbs is
\* not empty.
eventFilter == command_input = "" /\ Len(breadcrumbs) > 0

\* go_back(), lines 204 to 214, after archive_worker has left a: the last
\* label is popped; pop() on an empty list raises IndexError.
go_back_pop(a, bc) ==
    IF breadcrumbs = <<>>
    THEN /\ command_model' = <<>>
         /\ worker' = a.worker
         /\ old_workers' = a.old
         /\ workers' = Collect(a.ws, a.worker, a.old)
         /\ queue' = a.q
         /\ last' = Step("go_back", "IndexError", 0, FALSE)
         /\ UNCHANGED <<commands_mru, breadcrumbs, current_items, items_view,
                        command_input, bc_label, visible>>
    ELSE IF bc = <<>>
    THEN /\ show
         /\ breadcrumbs' = bc
         /\ worker' = a.worker
         /\ old_workers' = a.old
         /\ workers' = Collect(InPlace(a.ws, bc), a.worker, a.old)
         /\ queue' = a.q
         /\ last' = Step("go_back", "", 0, FALSE)
         /\ UNCHANGED commands_mru
    ELSE /\ command_model' = <<>>
         /\ bc_label' = Join(bc)
         /\ run_chosen_item("go_back", bc, a.worker, a.old, InPlace(a.ws, bc), a.q)
         /\ UNCHANGED <<current_items, items_view, command_input, visible>>

\* go_back(): the list is cleared, the worker archived, the last label
\* popped.
go_back ==
    /\ \E run \in ArchiveRuns(worker, workers) :
          go_back_pop(archive_worker(worker, old_workers, workers, queue, run),
                      Front(breadcrumbs))
    /\ UNCHANGED commands

\* Backspace in the input field when eventFilter calls go_back().
GoBack ==
    /\ visible
    /\ eventFilter
    /\ go_back

\* A Backspace key press in the input field: eventFilter calls go_back()
\* or passes the event on and leaves the palette as it is.
Backspace ==
    \/ GoBack
    \/ /\ visible
       /\ ~eventFilter
       /\ UNCHANGED vars

\* filter_commands filtering the registry names instead of the items of
\* the current level.
filter_commands_on_registry(text) == command_model' = filter_list(text, CommandNames)

\* filter_commands(text): the displayed list becomes the ranked items of
\* the current level that match the text.
filter_commands(text) == command_model' = filter_list(text, current_items)

\* The texts the user types into the input field.
Typed == {"", "ba"}

\* The user edits the input field: textChanged(text) calls filter_commands.
Type(text) ==
    /\ visible
    /\ text # command_input
    /\ command_input' = text
    /\ filter_commands(text)
    /\ last' = Step("filter", "", 0, FALSE)
    /\ UNCHANGED <<commands, commands_mru, breadcrumbs, current_items, items_view,
                   bc_label, visible, worker, old_workers, workers, queue>>

\* The registrations the application and the documentation make: name,
\* function, `delay`.  A name registered a second time gets the function
\* of the later call.
Registered == Range(AppRegistry) \cup Range(DocRegistry)

\* The application calls add_command.  current_items, when it is the view
\* self.commands.keys() that show() stored, shows the new key at once; the
\* list model holds a copy and does not.
AddCommand(c) ==
    /\ commands' = add_command(commands, c.name, c.fn, c.delay)
    /\ current_items' = IF items_view
                        THEN [i \in DOMAIN commands' |-> commands'[i].name]
                        ELSE current_items
    /\ last' = Step("add_command", "", 0, FALSE)
    /\ UNCHANGED <<commands_mru, breadcrumbs, items_view, command_input, command_model,
                   bc_label, visible, worker, old_workers, workers, queue>>

\* set_commands(commands): self.commands names the dict given.  The view
\* that show() stored in current_items is a view of the dict replaced: it
\* keeps showing that dict's keys and no longer follows self.commands.
SetCommands(cmds) ==
    /\ commands' = cmds
    /\ items_view' = FALSE
    /\ last' = Step("set_commands", "", 0, FALSE)
    /\ UNCHANGED <<commands_mru, breadcrumbs, current_items, command_input, command_model,
                   bc_label, visible, worker, old_workers, workers, queue>>

\* handle_progress_signal(value)
handle_progress_signal(m) ==
    /\ bc_label' = Spinner(m.value)
    /\ last' = Step("progress", "", m.sender, FALSE)
    /\ UNCHANGED <<commands_mru, breadcrumbs, current_items, items_view, command_input,
                   command_model, visible, workers>>

\* handle_result_signal displaying the results filtered by the text of the
\* input field.
handle_result_signal_filters(m) ==
    /\ bc_label' = Join(breadcrumbs)
    /\ IF m.status = "sub-command"
       THEN /\ current_items' = m.results
            /\ items_view' = FALSE
            /\ command_model' = filter_list(command_input, m.results)
            /\ last' = Step("result", "", m.sender, FALSE)
            /\ UNCHANGED <<commands_mru, breadcrumbs, command_input, visible, workers>>
       ELSE IF breadcrumbs = <<>>
       THEN \* self.breadcrumbs[0] raises IndexError
            /\ last' = Step("result", "IndexError", m.sender, FALSE)
            /\ UNCHANGED <<commands_mru, breadcrumbs, current_items, items_view,
                           command_input, command_model, visible, workers>>
       ELSE /\ commands_mru' = MruPut(commands_mru, breadcrumbs[1], Front(breadcrumbs))
            /\ hide(workers)
            /\ last' = Step("result", "", m.sender, FALSE)
            /\ UNCHANGED <<current_items, items_view, command_input>>

\* handle_result_signal(status, results)
handle_result_signal(m) ==
    /\ bc_label' = Join(breadcrumbs)
    /\ IF m.status = "sub-command"
       THEN /\ current_items' = m.results
            /\ items_view' = FALSE
            /\ command_model' = m.results
            /\ last' = Step("result", "", m.sender, FALSE)
            /\ UNCHANGED <<commands_mru, breadcrumbs, command_input, visible, workers>>
       ELSE IF breadcrumbs = <<>>
       THEN \* self.breadcrumbs[0] raises IndexError
            /\ last' = Step("result", "IndexError", m.sender, FALSE)
            /\ UNCHANGED <<commands_mru, breadcrumbs, current_items, items_view,
                           command_input, command_model, visible, workers>>
       ELSE /\ commands_mru' = MruPut(commands_mru, breadcrumbs[1], Front(breadcrumbs))
            /\ hide(workers)
            /\ last' = Step("result", "", m.sender, FALSE)
            /\ UNCHANGED <<current_items, items_view, command_input>>

\* The GUI thread's event loop delivers the oldest queued signal.
Deliver ==
    /\ queue # <<>>
    /\ queue' = Tail(queue)
    /\ IF Head(queue).kind = "progress"
       THEN handle_progress_signal(Head(queue))
       ELSE handle_result_signal(Head(queue))
    /\ UNCHANGED <<commands, worker, old_workers>>

\* -------------------------------------------------- Worker thread actions

Untouched == <<commands, commands_mru, breadcrumbs, current_items, items_view,
               command_input, command_model, bc_label, visible, worker,
               old_workers, last>>

\* The thread of worker w takes its next step.
Thread(w) ==
    LET st == Run(Threads(workers, queue), w, 1)
    IN  /\ workers' = st.ws
        /\ queue' = st.q
        /\ UNCHANGED Untouched

\* Worker.run calls the command function, which runs up to its first read
\* of breadcrumbs and makes it.
WorkerCall(w) == workers[w].pc = "started" /\ Thread(w)

\* The command function makes its next read of breadcrumbs.
WorkerRead(w) == workers[w].pc \in Lines /\ Thread(w)

\* The command function emits a progress value: progress_signal.emit(i + 1).
WorkerProgress(w) == workers[w].pc = "working" /\ workers[w].ticks > 0 /\ Thread(w)

\* The command function returns (or raises, and run ends with the
\* exception), and run reads self.cancelled.
WorkerReturn(w) == workers[w].pc = "working" /\ workers[w].ticks = 0 /\ Thread(w)

\* self.progress.emit(100)
WorkerEmit100(w) == workers[w].pc = "emit100" /\ Thread(w)

\* self.result.emit(status, result)
WorkerEmitResult(w) == workers[w].pc = "emitres" /\ Thread(w)

\* run has returned and the thread finishes.
WorkerFinish(w) == workers[w].pc = "exiting" /\ Thread(w)

\* ---------------------------------------------------------- specification

Init ==
    /\ commands \in Registries
    /\ commands_mru = NoMru
    /\ breadcrumbs = <<>>
    /\ current_items = <<>>
    /\ items_view = FALSE
    /\ command_input = ""
    /\ command_model = <<>>
    /\ bc_label = <<>>
    /\ visible = FALSE
    /\ worker = 0
    /\ old_workers = <<>>
    /\ workers = <<>>
    /\ queue = <<>>
    /\ last = Step("init", "", 0, FALSE)

Next ==
    \/ Show
    \/ Hide
    \/ \E i \in 1..MaxRow : Choose(i)
    \/ Backspace
    \/ Deliver
    \/ \E w \in DOMAIN workers : WorkerCall(w)
    \/ \E w \in DOMAIN workers : WorkerRead(w)
    \/ \E w \in DOMAIN workers : WorkerProgress(w)
    \/ \E w \in DOMAIN workers : WorkerReturn(w)
    \/ \E w \in DOMAIN workers : WorkerEmit100(w)
    \/ \E w \in DOMAIN workers : WorkerEmitResult(w)
    \/ \E w \in DOMAIN workers : WorkerFinish(w)

Spec == Init /\ [][Next]_vars

\* The worker of a command path that has completed: its thread has
\* finished, it still is in the `worker` slot (hide() does not archive it),
\* and it holds the list that hide() has replaced in the controller.
Completed(cmd, path) ==
    [NewWorker(cmd, path, "choose") EXCEPT
        !.shared = FALSE, !.pc = "finished", !.outcome = cmd_fn(cmd.fn, path)]

\* The palette after the path Slow command > foos > foo1 has been chosen
\* label by label, each choice made when the result of the one before was
\* displayed, and has completed: the path without its last label is saved,
\* hide() has run, the last level's items are still in current_items.  The
\* two workers of the shorter paths had finished and have been collected;
\* they are left out of `workers`.
InitMru ==
    LET path == <<"Slow command", "foos", "foo1">>
    IN  /\ commands = DocRegistry
        /\ commands_mru = MruPut(NoMru, path[1], Front(path))
        /\ breadcrumbs = <<>>
        /\ current_items = dummy_command(Front(path)).results
        /\ items_view = FALSE
        /\ command_input = ""
        /\ command_model = CommandNames
        /\ bc_label = Join(path)
        /\ visible = FALSE
        /\ worker = 1
        /\ old_workers = <<>>
        /\ workers = << Completed(Lookup(path[1]), path) >>
        /\ queue = <<>>
        /\ last = Step("result", "", 1, FALSE)

\* The palette from the end of a first completed drill-down on.
SpecMru == InitMru /\ [][Next]_vars

\* The palette of the documentation's registry with a user who also types.
InitTyping ==
    /\ Init
    /\ commands = DocRegistry

NextTyping ==
    \/ Show
    \/ Hide
    \/ \E i \in 1..MaxRow : Choose(i) /\ Len(workers') <= TypingWorkers
    \/ GoBack /\ Len(workers') <= TypingWorkers
    \/ \E text \in Typed : Type(text)
    \/ Deliver
    \/ \E w \in DOMAIN workers : WorkerCall(w)
    \/ \E w \in DOMAIN workers : WorkerRead(w)
    \/ \E w \in DOMAIN workers : WorkerProgress(w)
    \/ \E w \in DOMAIN workers : WorkerReturn(w)
    \/ \E w \in DOMAIN workers : WorkerEmit100(w)
    \/ \E w \in DOMAIN workers : WorkerEmitResult(w)
    \/ \E w \in DOMAIN workers : WorkerFinish(w)

SpecTyping == InitTyping /\ [][NextTyping]_vars

\* The items and the texts the filter is run on.
Words == {"a", "ab", "ba", "aab", "Ab", "a.b", "a\nb", "a\nab"}

Queries == {"", "a", "b", "B", "ab", "ba", "."}

ItemLists == UNION {[1..n -> Words] : n \in 0..MaxItems}

\* A visible palette whose current level holds any list of items, as a
\* command function may return it, with an empty input field.
InitFilter ==
    /\ commands = DocRegistry
    /\ commands_mru = NoMru
    /\ breadcrumbs = <<>>
    /\ current_items \in ItemLists
    /\ items_view = FALSE
    /\ command_input = ""
    /\ command_model = current_items
    /\ bc_label = <<>>
    /\ visible = TRUE
    /\ worker = 0
    /\ old_workers = <<>>
    /\ workers = <<>>
    /\ queue = <<>>
    /\ last = Step("result", "", 0, FALSE)

NextFilter == \E text \in Queries : Type(text)

\* menu_filter on every list of items and every text.
SpecFilter == InitFilter /\ [][NextFilter]_vars

\* The palette with a command that emits ProgressTicks progress values.
InitProgress ==
    /\ commands = << Command("Slow command", "dummy_command", ProgressTicks),
                     Command("Fast command", "dummy_command", FastTicks) >>
    /\ commands_mru = NoMru
    /\ breadcrumbs = <<>>
    /\ current_items = <<>>
    /\ items_view = FALSE
    /\ command_input = ""
    /\ command_model = <<>>
    /\ bc_label = <<>>
    /\ visible = FALSE
    /\ worker = 0
    /\ old_workers = <<>>
    /\ workers = <<>>
    /\ queue = <<>>
    /\ last = Step("init", "", 0, FALSE)

NextProgress ==
    \/ Show
    \/ Hide
    \/ \E i \in 1..MaxRow : Choose(i) /\ Len(workers') <= ProgressWorkers
    \/ GoBack /\ Len(workers') <= ProgressWorkers
    \/ Deliver
    \/ \E w \in DOMAIN workers : WorkerCall(w)
    \/ \E w \in DOMAIN workers : WorkerRead(w)
    \/ \E w \in DOMAIN workers : WorkerProgress(w)
    \/ \E w \in DOMAIN workers : WorkerReturn(w)
    \/ \E w \in DOMAIN workers : WorkerEmit100(w)
    \/ \E w \in DOMAIN workers : WorkerEmitResult(w)
    \/ \E w \in DOMAIN workers : WorkerFinish(w)

SpecProgress == InitProgress /\ [][NextProgress]_vars

\* One step of the thread of worker w.
WorkerStep(w) ==
    /\ w \in DOMAIN workers
    /\ \/ WorkerCall(w)
       \/ WorkerRead(w)
       \/ WorkerProgress(w)
       \/ WorkerReturn(w)
       \/ WorkerEmit100(w)
       \/ WorkerEmitResult(w)
       \/ WorkerFinish(w)

\* A started QThread is scheduled by the operating system whatever the GUI
\* thread does: a step it can take is taken.
SpecProgressFair ==
    /\ SpecProgress
    /\ \A w \in 1..ProgressWorkers : WF_vars(WorkerStep(w))

\* The palette after Slow command and then bars have been chosen, each
\* when the list was displayed, and the items of bars have arrived: the
\* worker of that path has emitted its result and finished, it holds the
\* controller's list.  The worker of the first choice had finished and has
\* been collected; it is left out of `workers`.
InitDrilled ==
    LET path == <<"Slow command", "bars">>
        cmd  == DocRegistry[1]
    IN  /\ commands = DocRegistry
        /\ commands_mru = NoMru
        /\ breadcrumbs = path
        /\ current_items = dummy_command(path).results
        /\ items_view = FALSE
        /\ command_input = ""
        /\ command_model = current_items
        /\ bc_label = Join(path)
        /\ visible = TRUE
        /\ worker = 1
        /\ old_workers = <<>>
        /\ workers = << [NewWorker(cmd, path, "choose") EXCEPT
                            !.pc = "finished", !.outcome = cmd_fn(cmd.fn, path)] >>
        /\ queue = <<>>
        /\ last = Step("result", "", 1, FALSE)

NextDrilled ==
    \/ \E i \in 1..MaxRow : Choose(i) /\ Len(workers') <= DrilledWorkers
    \/ ChooseNone
    \/ GoBack /\ Len(workers') <= DrilledWorkers
    \/ \E text \in Typed : Type(text)
    \/ Deliver
    \/ \E w \in DOMAIN workers : WorkerCall(w)
    \/ \E w \in DOMAIN workers : WorkerRead(w)
    \/ \E w \in DOMAIN workers : WorkerProgress(w)
    \/ \E w \in DOMAIN workers : WorkerReturn(w)
    \/ \E w \in DOMAIN workers : WorkerEmit100(w)
    \/ \E w \in DOMAIN workers : WorkerEmitResult(w)
    \/ \E w \in DOMAIN workers : WorkerFinish(w)

\* The palette from a second-level listing on, with a user who chooses,
\* goes back and types, and presses neither Escape nor Ctrl+P.
SpecDrilled == InitDrilled /\ [][NextDrilled]_vars

\* The palette as constructed, before any command is registered.
InitRegistry ==
    /\ commands = <<>>
    /\ commands_mru = NoMru
    /\ breadcrumbs = <<>>
    /\ current_items = <<>>
    /\ items_view = FALSE
    /\ command_input = ""
    /\ command_model = <<>>
    /\ bc_label = <<>>
    /\ visible = FALSE
    /\ worker = 0
    /\ old_workers = <<>>
    /\ workers = <<>>
    /\ queue = <<>>
    /\ last = Step("init", "", 0, FALSE)

NextRegistry ==
    \/ \E c \in Registered : AddCommand(c)
    \/ \E cmds \in Registries : SetCommands(cmds)
    \/ Show
    \/ Hide
    \/ \E i \in 1..MaxRow : Choose(i) /\ Len(workers') <= RegistryWorkers
    \/ GoBack /\ Len(workers') <= RegistryWorkers
    \/ Deliver
    \/ \E w \in DOMAIN workers : WorkerCall(w)
    \/ \E w \in DOMAIN workers : WorkerRead(w)
    \/ \E w \in DOMAIN workers : WorkerProgress(w)
    \/ \E w \in DOMAIN workers : WorkerReturn(w)
    \/ \E w \in DOMAIN workers : WorkerEmit100(w)
    \/ \E w \in DOMAIN workers : WorkerEmitResult(w)
    \/ \E w \in DOMAIN workers : WorkerFinish(w)

\* The palette with an application that registers and re-registers
\* commands, and replaces the registry, at any time.
SpecRegistry == InitRegistry /\ [][NextRegistry]_vars

\* ------------------------------------------------------------------ steps

\* The step is the delivery of a queued result to handle_result_signal.
ResultStep == queue # <<>> /\ Head(queue).kind = "result" /\ queue' = Tail(queue)

\* The step is the delivery of any queued signal.
DeliverStep == queue # <<>> /\ queue' = Tail(queue)

\* The step creates and starts a Worker.
StartStep == Len(workers') = Len(workers) + 1

\* The invocation that owns the right to update the palette.
IsActive(w) == w # 0 /\ w = worker /\ ~workers[w].cancelled

\* One of the Worker's two signals still has its slot.
Connected(w) == w.progress_connected \/ w.result_connected

\* The Worker w at every point its thread has ahead of it when nothing
\* else changes w.
Ahead(w) == { Run(Threads(<<w>>, <<>>), 1, k).ws[1] : k \in 0..StepsLeft(w) }

\* ----------------------------------------------------------------- claims

\* C1: once an invocation has been superseded by a newer one, no result of
\* it is handled by the controller: every result that handle_result_signal
\* handles comes from a worker that has not been cancelled.
C1_NoSupersededResult == last.op = "result" => ~workers[last.w].cancelled

\* C2: hide() leaves the palette invisible with empty breadcrumbs and the
\* registry names displayed, and supersedes the active invocation: a progress
\* or result notification delivered while the palette is hidden changes
\* neither the displayed items, the label, the breadcrumbs nor the MRU table,
\* and raises no error.
C2_HideSupersedes ==
    /\ [](last.op = "hide" =>
            ~visible /\ breadcrumbs = <<>> /\ command_model = CommandNames)
    /\ [][(~visible /\ DeliverStep) =>
            /\ UNCHANGED <<current_items, command_model, bc_label, breadcrumbs, commands_mru>>
            /\ last'.err = ""]_vars

\* C3: whenever a worker is started, and whenever a result is handled,
\* breadcrumbs has at least one element and its first element is a key of
\* the command registry.
C3_BreadcrumbsNameCommand ==
    [][/\ StartStep => Len(breadcrumbs') >= 1 /\ HasCommand(breadcrumbs'[1])
       /\ ResultStep => Len(breadcrumbs) >= 1 /\ HasCommand(breadcrumbs[1])]_vars

\* C4: at most one worker is not cancelled with its signals connected, that
\* worker is the one in the `worker` slot, and every other worker, those of
\* old_workers among them, is cancelled and disconnected.
C4_OneActiveWorker ==
    /\ \A w \in DOMAIN workers :
          (~workers[w].cancelled \/ Connected(workers[w])) => w = worker
    /\ \A i \in DOMAIN old_workers :
          workers[old_workers[i]].cancelled /\ ~Connected(workers[old_workers[i]])
    /\ Cardinality({w \in DOMAIN workers :
          ~workers[w].cancelled /\ Connected(workers[w])}) <= 1

\* C4 happens: a running superseded worker is kept in old_workers while a
\* newer worker, not cancelled and connected, is in the slot.
C4_Witness ==
    /\ worker # 0
    /\ ~workers[worker].cancelled /\ Connected(workers[worker])
    /\ \E i \in DOMAIN old_workers : isRunning(workers[old_workers[i]])

\* C5: every worker whose thread has not finished is referenced by the
\* controller, as `worker` or as an element of old_workers.
C5_RunningWorkersReferenced ==
    \A w \in DOMAIN workers :
        isRunning(workers[w]) => (w = worker \/ w \in Range(old_workers))

\* C5 happens: the scan of run_chosen_item has removed a finished worker
\* from old_workers (it is collected) while another worker is still running.
C5_Witness ==
    /\ \E w \in DOMAIN workers : workers[w].pc = "gone"
    /\ \E i \in DOMAIN old_workers : isRunning(workers[old_workers[i]])
    /\ worker # 0 /\ last.op \in {"choose", "go_back"} /\ last.w = worker

\* C6: when the work function of the active invocation raises, the
\* controller receives a failure result for it (or the palette is hidden):
\* a visible palette is never left with an active worker that ended by an
\* exception and no result of it delivered or on its way.
C6_FailureReported ==
    \A w \in DOMAIN workers :
        (IsActive(w) /\ workers[w].pc = "finished" /\ workers[w].outcome.status = "raise")
        => \/ ~visible
           \/ \E i \in DOMAIN queue : queue[i].sender = w /\ queue[i].kind = "result"
           \/ last.op = "result" /\ last.w = w

\* C7: when the active invocation delivers a result other than a
\* sub-command while breadcrumbs is b, the MRU entry of b[0] becomes b
\* without its last element, all other entries stay, breadcrumbs becomes
\* empty and the palette is hidden.
C7_CompletedSavesMru ==
    [][(ResultStep /\ IsActive(Head(queue).sender) /\ Head(queue).status # "sub-command") =>
            /\ Len(breadcrumbs) >= 1
            /\ commands_mru' = MruPut(commands_mru, breadcrumbs[1], Front(breadcrumbs))
            /\ breadcrumbs' = <<>>
            /\ ~visible']_vars

\* C8: a choice of a registered command made with empty breadcrumbs (a
\* top-level choice), when the MRU table holds a non-empty path for it,
\* starts the invocation with that path as breadcrumbs and removes the
\* entry; with no entry it starts with the plain one-element path; and a
\* sub-command result of the active invocation, handled while breadcrumbs
\* name a registered command, displays the items its command function
\* returns for those breadcrumbs, which are the ones the worker holds.
C8_MruReplay ==
    [][/\ \A i \in 1..MaxRow :
            (Choose(i) /\ breadcrumbs = <<>> /\ HasCommand(command_model[i])) =>
                LET name == command_model[i]
                IN  /\ (name \in DOMAIN commands_mru /\ Len(commands_mru[name]) >= 1) =>
                          /\ breadcrumbs' = commands_mru[name]
                          /\ name \notin DOMAIN commands_mru'
                          /\ StartStep
                          /\ workers'[worker'].crumbs = commands_mru[name]
                          /\ workers'[worker'].fn = Lookup(name).fn
                    /\ name \notin DOMAIN commands_mru =>
                          /\ breadcrumbs' = <<name>>
                          /\ StartStep
                          /\ workers'[worker'].crumbs = <<name>>
                          /\ commands_mru' = commands_mru
       /\ (/\ ResultStep /\ IsActive(Head(queue).sender)
           /\ Head(queue).status = "sub-command"
           /\ Len(breadcrumbs) >= 1 /\ HasCommand(breadcrumbs[1])) =>
            LET w == workers[Head(queue).sender]
            IN  /\ w.crumbs = breadcrumbs
                /\ current_items' = cmd_fn(w.fn, breadcrumbs).results
                /\ command_model' = current_items']_vars

\* C8 happens: the top-level choice of "Slow command" has found the saved
\* path <<"Slow command", "foos">>, started worker 2 with it and removed the
\* entry; that worker has got the items of the saved path from its
\* command function; and, after hide() and show(), a further top-level choice of the same name has found no
\* entry and started worker 3 with the one-label path.
C8_Witness ==
    /\ last.op = "choose" /\ ~last.replayed /\ last.w = 3 /\ worker = 3
    /\ Len(workers) = 3
    /\ workers[2].by = "choose"
    /\ workers[2].crumbs = <<"Slow command", "foos">>
    /\ workers[2].outcome = dummy_command(<<"Slow command", "foos">>)
    /\ workers[3].crumbs = <<"Slow command">>
    /\ breadcrumbs = <<"Slow command">>
    /\ "Slow command" \notin DOMAIN commands_mru

\* C9: every go_back() removes exactly the last label, the path is never
\* extended again by an MRU entry, and the go_back() that removes the only
\* label ends at the top-level listing with empty breadcrumbs.
C9_GoBackReachesTop ==
    [][GoBack =>
            /\ breadcrumbs' = Front(breadcrumbs)
            /\ Len(breadcrumbs) = 1 =>
                  /\ breadcrumbs' = <<>>
                  /\ visible'
                  /\ current_items' = CommandNames
                  /\ command_model' = CommandNames]_vars

\* C9 happens: the top-level choice of "Slow command" has replayed the saved
\* path <<"Slow command", "foos">> with worker 2 and removed the entry, and
\* go_back() has then shortened the path to <<"Slow command">> and started
\* worker 3 for it: run_chosen_item, reached with one label, has found no
\* entry to extend the path with.
C9_Witness ==
    /\ last.op = "go_back" /\ ~last.replayed /\ last.w = 3 /\ worker = 3
    /\ Len(workers) = 3
    /\ 2 \in Range(old_workers)
    /\ workers[2].by = "choose"
    /\ workers[2].outcome = dummy_command(<<"Slow command", "foos">>)
    /\ workers[3].by = "go_back"
    /\ workers[3].crumbs = <<"Slow command">>
    /\ breadcrumbs = <<"Slow command">>
    /\ "Slow command" \notin DOMAIN commands_mru
    /\ visible

\* C10: go_back() with n >= 2 labels removes the last one, supersedes the
\* active invocation and starts exactly one new invocation with the first
\* n-1 labels; with one label it empties breadcrumbs, starts no invocation
\* and shows the registry names.
C10_GoBackReinvokes ==
    [][GoBack =>
            /\ breadcrumbs' = Front(breadcrumbs)
            /\ worker # 0 => workers'[worker].cancelled /\ ~Connected(workers'[worker])
            /\ Len(breadcrumbs) >= 2 =>
                  /\ StartStep
                  /\ worker' = Len(workers')
                  /\ workers'[worker'].crumbs = Front(breadcrumbs)
                  /\ ~workers'[worker'].cancelled
            /\ Len(breadcrumbs) = 1 =>
                  /\ ~StartStep
                  /\ worker' = 0
                  /\ visible'
                  /\ command_model' = CommandNames]_vars

\* C11: choosing label a with breadcrumbs b appends exactly a, and a
\* go_back() that follows the choice removes exactly the last label: the
\* two together restore b.
C11_PushPopRoundTrip ==
    [][/\ \A i \in 1..MaxRow :
            Choose(i) => breadcrumbs' = Append(breadcrumbs, command_model[i])
       /\ (GoBack /\ last.op = "choose") =>
            breadcrumbs' = SubSeq(breadcrumbs, 1, Len(breadcrumbs) - 1)]_vars

\* C11, amended: the choice appends exactly a unless it is a top-level
\* choice of a name with an MRU entry, which replaces breadcrumbs by the
\* saved path; the go_back() that follows a choice removes exactly the
\* last label of what the choice left.
C11_RoundTripUnlessReplayed ==
    [][/\ \A i \in 1..MaxRow :
            Choose(i) =>
                LET a      == command_model[i]
                    replay == breadcrumbs = <<>> /\ a \in DOMAIN commands_mru
                IN  /\ ~replay => breadcrumbs' = Append(breadcrumbs, a)
                    /\ replay => breadcrumbs' = commands_mru[a]
       /\ (GoBack /\ last.op = "choose") =>
            breadcrumbs' = SubSeq(breadcrumbs, 1, Len(breadcrumbs) - 1)]_vars

\* C11 happens: the saved path Slow command > foos has been replayed by a
\* top-level choice, and go_back() has removed its last label and started
\* a worker for the label that is left.
C11_Witness ==
    /\ last.op = "go_back" /\ last.w # 0 /\ last.w = worker
    /\ Len(breadcrumbs) = 1
    /\ commands_mru = NoMru
    /\ workers[worker].crumbs = breadcrumbs

\* C12: show() called while the palette is hidden leaves it visible, with
\* an empty input field, empty breadcrumbs, and the registered command
\* names, in registration order, as the items of the level and as the
\* displayed list.
C12_ShowFromHidden ==
    [][(Show /\ ~visible) =>
            /\ visible'
            /\ command_input' = ""
            /\ breadcrumbs' = <<>>
            /\ current_items' = [i \in DOMAIN commands |-> commands[i].name]
            /\ command_model' = current_items']_vars

\* C12 happens: the palette has been shown again after a command was
\* chosen, and a text typed into the input field has been cleared.
C12_Witness ==
    /\ last.op = "show" /\ visible
    /\ command_input = "" /\ breadcrumbs = <<>>
    /\ command_model = <<"Slow command", "Fast command">>
    /\ worker # 0

\* C13: when the result ('sub-command', items) of the active invocation is
\* handled, items become the items of the level and the displayed list, in
\* the same order, the label becomes the breadcrumbs joined by " > ", and
\* the visibility of the palette, the breadcrumbs and the MRU table stay as
\* they are.
C13_SubCommandFrame ==
    [][(/\ ResultStep /\ IsActive(Head(queue).sender)
        /\ Head(queue).status = "sub-command") =>
            /\ current_items' = Head(queue).results
            /\ command_model' = Head(queue).results
            /\ bc_label' = Join(breadcrumbs)
            /\ visible' = visible
            /\ breadcrumbs' = breadcrumbs
            /\ commands_mru' = commands_mru]_vars

\* C13 happens: the sub-command result of the active invocation has been
\* displayed in a visible palette whose input field holds a text.
C13_Witness ==
    /\ last.op = "result" /\ last.err = ""
    /\ IsActive(last.w)
    /\ visible /\ command_input # ""
    /\ Len(breadcrumbs) = 1
    /\ current_items = cmd_fn(workers[last.w].fn, breadcrumbs).results
    /\ command_model = current_items /\ Len(command_model) = 3
    /\ bc_label = Join(breadcrumbs)

\* C14: typing a text changes only the input field and the displayed list,
\* which becomes the filtered items of the current level (current_items),
\* not of the registry; breadcrumbs, the MRU table, current_items, the
\* worker slot, old_workers and every worker are unchanged, and no worker
\* is started.
C14_FilterFrame ==
    [][\A text \in Typed :
            Type(text) =>
                /\ command_input' = text
                /\ command_model' = filter_list(text, current_items)
                /\ UNCHANGED <<breadcrumbs, commands_mru, current_items, items_view,
                               worker, old_workers, workers, queue, commands,
                               bc_label, visible>>
                /\ ~StartStep]_vars

\* C14 happens: below the top level, a typed text has reduced the
\* displayed list to the matching items of the level, which are not
\* registry names.
C14_Witness ==
    /\ last.op = "filter" /\ command_input # ""
    /\ Len(breadcrumbs) >= 1
    /\ current_items # CommandNames
    /\ command_model # <<>> /\ command_model # current_items
    /\ command_model = filter_list(command_input, current_items)
    /\ worker # 0

\* C15: when run_chosen_item is called (by a choice or by go_back()) while
\* the first label of breadcrumbs is not a registered command name, it
\* raises an error and no worker is started.
C15_UnknownCommandRaises ==
    [][/\ \A i \in 1..MaxRow :
            (Choose(i) /\ ~HasCommand(Append(breadcrumbs, command_model[i])[1])) =>
                /\ last'.err = "KeyError"
                /\ ~StartStep
                /\ worker' = worker
       /\ (GoBack /\ Len(breadcrumbs) >= 2 /\ ~HasCommand(breadcrumbs[1])) =>
                /\ last'.err = "KeyError"
                /\ ~StartStep
                /\ worker' = 0]_vars

\* C15 happens: a choice made with a first label that is no command name
\* has ended in KeyError.
C15_Witness ==
    /\ last.op = "choose" /\ last.err = "KeyError" /\ last.w = 0
    /\ Len(breadcrumbs) >= 1
    /\ ~HasCommand(breadcrumbs[1])

\* C16: add_command with a name that is already registered raises no error
\* and replaces the entry of that name, every other entry stays as it is
\* (a new name is added at the end); and a worker started for a command name runs the function of
\* the entry the registry holds for it, with its keyword arguments: those
\* of the last registration (set_commands, which replaces the whole
\* registry, is the one other operation that changes it).
C16_LastRegistrationWins ==
    [][/\ \A c \in Registered :
            AddCommand(c) =>
                LET known == {i \in DOMAIN commands : commands[i].name = c.name}
                IN  /\ last'.err = ""
                    /\ Len(commands') = IF known = {} THEN Len(commands) + 1
                                        ELSE Len(commands)
                    /\ \A i \in DOMAIN commands :
                          commands'[i] = IF i \in known THEN c ELSE commands[i]
                    /\ known = {} => commands'[Len(commands')] = c
                    /\ Cardinality({i \in DOMAIN commands' : commands'[i].name = c.name}) = 1
       /\ commands' # commands =>
            \/ \E c \in Registered : AddCommand(c)
            \/ \E cmds \in Registries : SetCommands(cmds)
       /\ \A i \in 1..MaxRow :
            (Choose(i) /\ StartStep) =>
                \E j \in DOMAIN commands :
                    /\ commands[j].name = Append(breadcrumbs, command_model[i])[1]
                    /\ workers'[worker'].fn = commands[j].fn
                    /\ workers'[worker'].delay = commands[j].delay]_vars

\* C16 happens: a command has been registered again with another function
\* while a worker started for it under the first registration still
\* exists, and the registry holds the second registration.
C16_Witness ==
    /\ last.op = "add_command"
    /\ worker # 0
    /\ workers[worker].fn = "dummy_command"
    /\ workers[worker].crumbs = <<"Slow command">>
    /\ HasCommand("Slow command") /\ Lookup("Slow command").fn = "app.dummy_command"
    /\ Len(commands) = 2

\* C17: for every query q and list L, rank_list(q, L) is a permutation of L,
\* each item paired with its score, the scores never increasing along the
\* list, and filter_list(q, L) is exactly the items of rank_list(q, L) of a
\* score above 0, in the order rank_list gives them.
C17_FilterIsPositiveRank ==
    \A q \in Queries :
        LET L   == current_items
            r   == rank_list(q, L)
            f   == filter_list(q, L)
            pos == {i \in DOMAIN r : Greater(r[i].score, Ratio(0, 1))}
        IN  /\ Len(r) = Len(L)
            /\ \E perm \in [DOMAIN L -> DOMAIN L] :
                   /\ \A i, j \in DOMAIN L : perm[i] = perm[j] => i = j
                   /\ \A i \in DOMAIN L : r[i].item = L[perm[i]]
            /\ \A i \in DOMAIN r :
                   r[i].score = score(r[i].item, build_regex(q))
            /\ \A i, j \in DOMAIN r :
                   i < j => ~Greater(r[j].score, r[i].score)
            /\ Len(f) = Cardinality(pos)
            /\ \A k \in DOMAIN f :
                   \E i \in pos : /\ Cardinality({j \in pos : j <= i}) = k
                                  /\ f[k] = r[i].item

\* A list of three items filtered by "b": the item without the letter is
\* gone and the two others have changed places.
C17_Witness ==
    /\ last.op = "filter"
    /\ command_input = "b"
    /\ current_items = <<"ab", "a", "ba">>
    /\ command_model = <<"ba", "ab">>

\* C18: for every list L, filter_list("", L) holds every item of L as many
\* times as L holds it: the empty query drops no item and adds none.
C18_EmptyQueryKeepsAll ==
    LET L == current_items
        f == filter_list("", L)
    IN  /\ Len(f) = Len(L)
        /\ \A x \in Range(L) \cup Range(f) :
               Cardinality({i \in DOMAIN f : f[i] = x}) =
                   Cardinality({i \in DOMAIN L : L[i] = x})

\* A list that holds an item twice has been narrowed by a query and then
\* filtered by the empty query: the view shows the whole list again.
C18_Witness ==
    /\ last.op = "filter"
    /\ command_input = ""
    /\ current_items = <<"ab", "a", "ab">>
    /\ command_model = current_items

\* C19: an item of L appears in filter_list(q, L) if and only if the
\* characters of q occur in the item in order as a subsequence, compared
\* without regard to case; an item in which they do not occur so has score
\* 0 and is left out.
C19_KeptIffSubsequence ==
    \A q \in Queries : \A i \in DOMAIN current_items :
        LET item == current_items[i]
            c    == Chars(q)
            s    == Chars(item)
            sub  == \E f \in [DOMAIN c -> DOMAIN s] :
                        /\ \A j, k \in DOMAIN c : j < k => f[j] < f[k]
                        /\ \A k \in DOMAIN c : Lower(s[f[k]]) = Lower(c[k])
            kept == item \in Range(filter_list(q, current_items))
        IN  /\ kept <=> sub
            /\ ~sub => score(item, build_regex(q)) = Ratio(0, 1)

\* C20: for an item that matches, the score is 100 / ((s+1)*(m+1)), where s
\* is the leftmost index at which a subsequence match of the query can start
\* and m is the length of the match found from s by taking each next query
\* character at its earliest occurrence; hence an item of a smaller product
\* (s+1)*(m+1) is ranked before an item of a larger one, and the empty query
\* gives every item the maximal score 100.
C20_ScoreFormula ==
    LET Occurs(c, s, f) ==
            /\ \A j, k \in DOMAIN c : j < k => f[j] < f[k]
            /\ \A k \in DOMAIN c : Lower(s[f[k]]) = Lower(c[k])
        Occurrences(c, s) == {f \in [DOMAIN c -> DOMAIN s] : Occurs(c, s, f)}
        Earliest(c, s, f) ==
            /\ \A g \in Occurrences(c, s) : f[1] <= g[1]
            /\ \A k \in 2..Len(c) : \A j \in (f[k - 1] + 1)..(f[k] - 1) :
                   Lower(s[j]) # Lower(c[k])
        Product(q, item) ==
            LET c == Chars(q)
                s == Chars(item)
                f == CHOOSE g \in Occurrences(c, s) : Earliest(c, s, g)
            IN  IF c = <<>> THEN 1
                ELSE f[1] * ((f[Len(c)] - f[1] + 1) + 1)
        Matches(q, item) == score(item, build_regex(q)).n > 0
        L == current_items
    IN  /\ \A q \in Queries : \A i \in DOMAIN L :
               Matches(q, L[i]) =>
                   score(L[i], build_regex(q)) = Ratio(100, Product(q, L[i]))
        /\ \A q \in Queries :
               LET r == rank_list(q, L)
               IN  \A i, j \in DOMAIN r :
                       (/\ Matches(q, r[i].item) /\ Matches(q, r[j].item)
                        /\ Product(q, r[i].item) < Product(q, r[j].item))
                           => i < j
        /\ \A i \in DOMAIN L : score(L[i], build_regex("")) = Ratio(100, 1)
        /\ \A q \in Queries : \A i \in DOMAIN L :
               ~Greater(score(L[i], build_regex(q)), Ratio(100, 1))

\* C21: a progress value that the work function of a superseded invocation
\* emits after archive_worker has run for it is not posted to the
\* controller, so handle_progress_signal never receives it, and the emission
\* raises no error: the work function goes on to its next step.  This holds
\* also when the invocation is superseded between two of its emissions.
C21_SupersededProgressDropped ==
    [][\A w \in DOMAIN workers :
            (WorkerProgress(w) /\ workers[w].cancelled) =>
                /\ queue' = queue
                /\ last' = last
                /\ workers'[w].pc = "working"
                /\ workers'[w].ticks = workers[w].ticks - 1]_vars

\* C21 happens: the invocation was superseded after its first progress
\* value, which is still queued, and has then emitted its second one, which
\* is not in the queue.
C21_Witness ==
    \E w \in DOMAIN workers :
        /\ workers[w].cancelled /\ ~Connected(workers[w])
        /\ workers[w].pc = "working"
        /\ workers[w].delay = ProgressTicks /\ workers[w].ticks = 0
        /\ queue = <<Progress(w, 1)>>

\* C22: right after the scan that run_chosen_item performs before it
\* creates a worker, old_workers holds no worker whose thread had finished
\* when the scan began, whatever the number and the places of the finished
\* workers in the list.
C22_ScanRemovesFinished ==
    [][StartStep =>
            \A k \in DOMAIN old_workers' :
                ~isFinished(workers[old_workers'[k]])]_vars

\* C23: each item choice appends the chosen label to breadcrumbs (a
\* top-level choice of a name with a saved path continues with that path)
\* and then starts exactly one new worker, after it has marked the worker
\* that was active cancelled, disconnected its signals and, when its thread
\* still runs, moved it into old_workers; the new worker is the only one
\* connected to the controller's handlers.
C23_ChoiceStartsOneWorker ==
    [][\A i \in 1..MaxRow :
            Choose(i) =>
                LET a      == command_model[i]
                    replay == breadcrumbs = <<>> /\ a \in DOMAIN commands_mru
                IN  /\ breadcrumbs' = IF replay THEN commands_mru[a]
                                      ELSE Append(breadcrumbs, a)
                    /\ Len(workers') = Len(workers) + 1
                    /\ worker' = Len(workers')
                    /\ ~workers'[worker'].cancelled
                    /\ worker # 0 =>
                          /\ workers'[worker].cancelled
                          /\ ~Connected(workers'[worker])
                          /\ isRunning(workers'[worker]) =>
                                worker \in Range(old_workers')
                    /\ \A w \in DOMAIN workers' :
                          Connected(workers'[w]) <=> w = worker']_vars

\* C24: an invocation that is not cancelled when its work function returns
\* its (status, results) posts progress 100 and then the result to the
\* controller, in that order, and the result is its last notification; an
\* invocation that is cancelled at that point emits neither.
C24_ProgressThenResult ==
    /\ [](\A i, j \in DOMAIN queue :
            (i < j /\ queue[i].sender = queue[j].sender) => queue[i].kind # "result")
    /\ [][\A w \in DOMAIN workers :
            /\ (WorkerReturn(w) /\ workers[w].outcome.status # "raise") =>
                  /\ ~workers[w].cancelled => workers'[w].pc = "emit100"
                  /\ workers[w].cancelled => workers'[w].pc = "finished"
            /\ WorkerEmit100(w) =>
                  /\ queue' = Append(queue, Progress(w, 100))
                  /\ workers'[w].pc = "emitres"
            /\ WorkerEmitResult(w) =>
                  /\ queue' = Append(queue, Result(w, workers[w].outcome.status,
                                                   workers[w].outcome.results))
                  /\ workers'[w].pc = "exiting"
            /\ (workers[w].pc \in {"exiting", "finished"} /\ Len(queue') > Len(queue)) =>
                  queue'[Len(queue')].sender # w]_vars

\* C24, amended: the invocation that is not cancelled when its work
\* function returns emits progress 100 and then the result, and each of the
\* two reaches the controller only if the invocation has not been
\* superseded (the signal of that emission disconnected) before that
\* emission; what is emitted on a disconnected signal is dropped.  The
\* order is kept, the result is the last notification, also for what the
\* thread emits while a handler of the controller runs, and an invocation
\* cancelled when the work function returns emits neither.
C24_ProgressThenResultWhileConnected ==
    /\ [](\A i, j \in DOMAIN queue :
            (i < j /\ queue[i].sender = queue[j].sender) => queue[i].kind # "result")
    /\ [][\A w \in DOMAIN workers :
            /\ (WorkerReturn(w) /\ workers[w].outcome.status # "raise") =>
                  /\ ~workers[w].cancelled => workers'[w].pc = "emit100"
                  /\ workers[w].cancelled => workers'[w].pc = "finished"
                  /\ queue' = queue
            /\ WorkerEmit100(w) =>
                  /\ queue' = IF workers[w].progress_connected
                              THEN Append(queue, Progress(w, 100)) ELSE queue
                  /\ workers'[w].pc = "emitres"
            /\ WorkerEmitResult(w) =>
                  /\ queue' = IF workers[w].result_connected
                              THEN Append(queue, Result(w, workers[w].outcome.status,
                                                        workers[w].outcome.results))
                              ELSE queue
                  /\ workers'[w].pc = "exiting"
            /\ (workers[w].pc \in {"exiting", "finished"} /\ Len(queue') > Len(queue)) =>
                  queue'[Len(queue')].sender # w]_vars
    /\ [][~DeliverStep =>
            \A i \in (Len(queue) + 1)..Len(queue') :
                LET m == queue'[i]
                    w == workers'[m.sender]
                IN  /\ (m.kind = "progress" /\ m.value = 100) =>
                          w.pc \in {"emitres", "exiting", "finished", "gone"}
                    /\ m.kind = "result" =>
                          /\ w.pc \in {"exiting", "finished", "gone"}
                          /\ w.pc # "gone" =>
                                m = Result(m.sender, w.outcome.status, w.outcome.results)
                          /\ \A j \in (i + 1)..Len(queue') : queue'[j].sender # m.sender]_vars

\* C24 happens: the invocation was superseded between its two emissions:
\* its progress 100 is queued, its result was emitted and dropped.
C24_Witness ==
    \E w \in DOMAIN workers :
        /\ workers[w].pc = "exiting"
        /\ workers[w].cancelled /\ ~Connected(workers[w])
        /\ queue = <<Progress(w, 100)>>

\* C25: no controller action (choose, go_back, hide, show, a delivery)
\* stops a running work function: it leaves the position, the outcome and
\* the pending emissions of every running worker as they are, but for the
\* steps that the thread of the worker in the slot takes by itself while
\* the handler runs (a thread that ends so may be collected), and changes
\* the cancelled flag and the connections of the archived worker only,
\* setting the flag and removing the connections; and every started
\* invocation, superseded or not, runs until its work function has returned
\* and its thread has finished.
C25_NeverPreempted ==
    /\ [][(Show \/ Hide \/ GoBack \/ Deliver \/ \E i \in 1..MaxRow : Choose(i)) =>
            \A w \in DOMAIN workers :
                /\ (isRunning(workers[w]) /\ w # worker) =>
                      /\ workers'[w].pc = workers[w].pc
                      /\ workers'[w].outcome = workers[w].outcome
                      /\ workers'[w].ticks = workers[w].ticks
                      /\ workers'[w].fn = workers[w].fn
                /\ (isRunning(workers[w]) /\ w = worker) =>
                      \/ workers'[w].pc = "gone"
                      \/ /\ workers'[w].fn = workers[w].fn
                         /\ \E c \in {workers[w].crumbs, workers'[w].crumbs} :
                            \E f \in {workers[w].cancelled, TRUE} :
                            \E x \in Ahead([workers[w] EXCEPT !.crumbs = c, !.cancelled = f]) :
                                /\ workers'[w].pc = x.pc
                                /\ workers'[w].outcome = x.outcome
                                /\ workers'[w].ticks = x.ticks
                /\ (\/ workers'[w].cancelled # workers[w].cancelled
                    \/ Connected(workers'[w]) # Connected(workers[w])) =>
                      /\ w = worker /\ worker' # w
                      /\ workers'[w].cancelled /\ ~Connected(workers'[w])]_vars
    /\ \A w \in 1..ProgressWorkers :
          (w \in DOMAIN workers) ~> (w \in DOMAIN workers /\ isFinished(workers[w]))

\* C25 happens: a worker that was archived while its thread was running has
\* gone on to the end of its work function and has finished, cancelled.
C25_Witness ==
    \E w \in DOMAIN workers :
        /\ w \in Range(old_workers)
        /\ workers[w].cancelled /\ workers[w].pc = "finished"
        /\ workers[w].outcome.status = "sub-command"
        /\ workers[w].delay = ProgressTicks /\ workers[w].ticks = 0

\* C26: under every sequence of UI events and deliveries, go_back() never
\* executes breadcrumbs.pop() on an empty list: a Backspace key press calls
\* go_back() only when the text is empty (the cursor at position 0) and
\* breadcrumbs is not empty, and leaves the state unchanged otherwise.
C26_PopNeverOnEmpty ==
    /\ [](~(last.op = "go_back" /\ last.err = "IndexError"))
    /\ [][Backspace =>
            IF command_input = "" /\ Len(breadcrumbs) > 0
            THEN /\ last'.op = "go_back"
                 /\ last'.err # "IndexError"
                 /\ breadcrumbs' = Front(breadcrumbs)
            ELSE UNCHANGED vars]_vars

\* C26 happens: go_back() has popped the only label and the palette is at
\* the top level again, where Backspace finds breadcrumbs empty.
C26_Witness ==
    /\ last.op = "go_back" /\ last.err = ""
    /\ breadcrumbs = <<>> /\ command_input = "" /\ visible
    /\ \E w \in DOMAIN workers : workers[w].cancelled

\* C27: after go_back() has cleared the displayed list and until the result
\* of the invocation it started arrives, no choice is made: while that
\* invocation is active and has not yet emitted its result, no choose event
\* appends a label to breadcrumbs or starts an invocation, whatever has been
\* typed in between.
C27_NoChoiceBeforeResult ==
    [][\A i \in 1..MaxRow :
            Choose(i) =>
                ~(/\ worker # 0
                  /\ workers[worker].by = "go_back"
                  /\ ~workers[worker].cancelled
                  /\ \/ InCall(workers[worker])
                     \/ workers[worker].pc \in {"working", "emit100", "emitres"})]_vars

\* C28: of two matches of the same query that start at the same position,
\* the longer match gets the higher score.
C28_LongerScoresHigher ==
    \A q \in Queries : \A i, j \in DOMAIN current_items :
        LET regex == build_regex(q)
            x     == search(regex, Chars(current_items[i]), 0)
            y     == search(regex, Chars(current_items[j]), 0)
        IN  (/\ x # NoMatch /\ y # NoMatch
             /\ x.start = y.start
             /\ x.end - x.start > y.end - y.start) =>
                Greater(score(current_items[i], regex), score(current_items[j], regex))

\* C29: rank_list and filter_list are deterministic and stable: the list
\* displayed after a filtering is the one value that filter_list has for
\* the text and the items, whatever was filtered before, and the items of
\* one and the same score stand in rank_list, and in filter_list, in the
\* order they have in the input list.
C29_DeterministicStable ==
    /\ last.op = "filter" =>
          command_model = filter_list(command_input, current_items)
    /\ \A q \in Queries :
          LET L       == current_items
              regex   == build_regex(q)
              r       == rank_list(q, L)
              f       == filter_list(q, L)
              Same(a, b) == a.n * b.d = b.n * a.d
              Of(seq, sc) ==
                  SelectSeq(seq, LAMBDA x : Same(score(x, regex), sc))
          IN  \A i \in DOMAIN L :
                  LET sc == score(L[i], regex)
                  IN  /\ Of([k \in DOMAIN r |-> r[k].item], sc) = Of(L, sc)
                      /\ sc.n > 0 => Of(f, sc) = Of(L, sc)

\* C29 happens: three items filtered by "a": the two of score 50 are in
\* front, in the order of the input list, the one of score 25 is last.
C29_Witness ==
    /\ last.op = "filter"
    /\ command_input = "a"
    /\ current_items = <<"ba", "aab", "ab">>
    /\ command_model = <<"aab", "ab", "ba">>

\* C30: the breadcrumbs handed to a work function do not change while the
\* invocation runs, active or superseded: no step changes the path that a
\* worker whose work function has not yet returned reads.
C30_WorkerPathFixed ==
    [][\A w \in DOMAIN workers :
            (InCall(workers[w]) \/ workers[w].pc = "working") =>
                workers'[w].crumbs = workers[w].crumbs]_vars

\* C31: whenever an invocation is started with breadcrumbs b, every label of
\* b after the first was offered in the sub-command list that the command
\* function returns for the labels before it; a choice made while the list
\* of the level above is still displayed never starts an invocation on a
\* path with a label that its level does not offer.
C31_StartedPathWasOffered ==
    [][StartStep =>
        LET b == workers'[Len(workers')].crumbs
        IN  \A i \in 2..Len(b) :
                LET offer == cmd_fn(Lookup(b[1]).fn, SubSeq(b, 1, i - 1))
                IN  /\ offer.status = "sub-command"
                    /\ b[i] \in Range(offer.results)]_vars

\* C32: whenever the palette displays the top-level registry listing, after
\* show() called in any state or after go_back() from depth 1, breadcrumbs
\* is empty, and the item chosen next from that listing becomes the first
\* label of breadcrumbs.
C32_TopListingHasNoBreadcrumbs ==
    /\ []((\/ last.op = "show"
           \/ last.op = "go_back" /\ last.err = "" /\ last.w = 0)
              => breadcrumbs = <<>>)
    /\ [][\A i \in 1..MaxRow :
            (/\ \/ last.op = "show"
                \/ last.op = "go_back" /\ last.err = "" /\ last.w = 0
             /\ Choose(i)
             /\ ~last'.replayed) =>
                breadcrumbs' = <<command_model[i]>>]_vars

\* C33: after any sequence of operations, every entry of the MRU table is
\* keyed by a registered command name, and the path it stores is empty or
\* starts with that key.
C33_MruKeyedByCommand ==
    \A k \in DOMAIN commands_mru :
        /\ HasCommand(k)
        /\ commands_mru[k] = <<>> \/ commands_mru[k][1] = k

\* C34: a choose event handled while the displayed list is empty (the
\* chosen item is None) is a no-op: the text of the input field, the
\* breadcrumbs, the MRU table, the active worker and old_workers stay as
\* they are, and no invocation is started.
C34_ChooseNothingIsNoOp ==
    [][(visible /\ command_model = <<>> /\ last'.op = "choose" /\ last' # last) =>
            /\ UNCHANGED <<command_input, breadcrumbs, commands_mru, worker,
                           old_workers, workers>>
            /\ ~StartStep]_vars

\* C34 happens: Return was pressed on a list that a typed text matching no
\* item of the level has emptied, while a worker was in the slot and the
\* breadcrumbs were not empty.
C34_Witness ==
    /\ last = Step("choose", "", 0, FALSE)
    /\ visible /\ command_model = <<>>
    /\ command_input # "" /\ current_items # <<>>
    /\ breadcrumbs # <<>> /\ worker # 0

====
